---- MODULE Spec2Model ----
(***************************************************************************)
(* Model of the LoRaWAN gateway: the radio poll loop, the per-packet       *)
(* dispatch tasks (join flow and data uplink), the readings cache and      *)
(* shutdown.                                                               *)
(*                                                                         *)
(* Byte strings are sequences of naturals.  The cryptographic library is   *)
(* an external collaborator: its results are free constructors over their  *)
(* inputs, and the calls whose error the code tests may fail.              *)
(***************************************************************************)
EXTENDS Naturals, Sequences, FiniteSets, TLC

\* ------------------------------------------------------------------ bounds

\* number of packets the poll loop hands to the dispatcher (dispatch tasks)
MaxTasks == 2

\* number of devices in a configuration given to Validate
MaxDevices == 2

Tasks == 1..MaxTasks

\* -------------------------------------------------------- program constants

\* network id for the device to identify the network
netID == <<1, 2, 3>>

\* message types (first byte of the payload)
MhdrJoinRequest == 0

MhdrDataUplink == 64

MhdrJoinAccept == 32

\* length of a complete join request: 1 + 8 + 8 + 2 + 4 bytes
JoinRequestLen == 23

\* ---------------------------------------------------------- pure functions

\* reverseByteArray creates a new array reversed of the input.
reverseByteArray(arr) == [i \in 1..Len(arr) |-> arr[Len(arr) + 1 - i]]

RECURSIVE SumBytes(_)
SumBytes(s) == IF s = <<>> THEN 0 ELSE (s[1] + SumBytes(Tail(s))) % 256

\* capacity of the payload slice the poll loop builds by appending one byte
\* at a time to a nil slice (the runtime grows it 8, 16, 32, 64)
PayloadCap(n) == IF n = 0 THEN 0 ELSE IF n <= 8 THEN 8 ELSE IF n <= 16 THEN 16
                 ELSE IF n <= 32 THEN 32 ELSE 64

\* payload[lo:hi] of a Go slice, lo and hi 0-based: it is legal up to the
\* capacity, and the bytes between the length and the capacity read as zero
SliceOK(payload, lo, hi) == lo <= hi /\ hi <= PayloadCap(Len(payload))

Slice(payload, lo, hi) ==
    [i \in 1..(hi - lo) |-> IF lo + i <= Len(payload) THEN payload[lo + i] ELSE 0]

\* crypto.ComputeJoinRequestMIC: a keyed 4-byte code over the 19-byte prefix
ComputeJoinRequestMIC(appKey, prefix) ==
    <<(appKey + SumBytes(prefix)) % 256, appKey, Len(prefix), SumBytes(prefix)>>

\* crypto.ComputeLegacyJoinAcceptMIC: a keyed code over the plaintext
ComputeLegacyJoinAcceptMIC(appKey, plain) ==
    <<(appKey + SumBytes(plain)) % 256, appKey, Len(plain), SumBytes(plain)>>

\* crypto.EncryptJoinAccept: a ciphertext that only the key opens
EncryptJoinAccept(appKey, plain) == [key |-> appKey, plain |-> plain]

\* cryptoservices DeriveAppSKey: the session key is a function of the
\* application key, the join nonce, the dev nonce and the network id
DeriveAppSKey(appKey, jn, devNonceBE, networkID) ==
    <<appKey, jn, devNonceBE, networkID>>

\* ------------------------------------------------------------ configuration

\* the zero value of types.AES128Key
ZeroKey == <<>>

\* the configured devices, by name
DeviceNames == {"d1", "d2", "d3"}

\* cfg.Devices, the hex strings decoded: two OTAA devices, and an ABP device
\* whose configuration also carries a dev EUI
Devices ==
    [d \in DeviceNames |->
        CASE d = "d1" -> [JoinType |-> "OTAA", DevEUI |-> <<1, 2, 3, 4, 5, 6, 7, 8>>,
                          AppKey |-> 11, DevAddr |-> <<>>, AppSKey |-> ZeroKey]
          [] d = "d2" -> [JoinType |-> "", DevEUI |-> <<8, 7, 6, 5, 4, 3, 2, 1>>,
                          AppKey |-> 12, DevAddr |-> <<>>, AppSKey |-> ZeroKey]
          [] d = "d3" -> [JoinType |-> "ABP", DevEUI |-> <<3, 3, 3, 3, 3, 3, 3, 4>>,
                          AppKey |-> 0, DevAddr |-> <<9, 9, 9, 9>>,
                          AppSKey |-> <<99>>]]

\* a constructor that takes the dev EUI of every device, whatever its join type
newDeviceWithEui(c) ==
    [joinType |-> IF c.JoinType = "ABP" THEN "ABP" ELSE "OTAA",
     devEui |-> c.DevEUI, AppKey |-> c.AppKey,
     addr |-> IF c.JoinType = "ABP" THEN c.DevAddr ELSE <<>>,
     appSKey |-> IF c.JoinType = "ABP" THEN c.AppSKey ELSE ZeroKey]

\* the Device newGateway makes of a configured device: an OTAA (or
\* unspecified) one gets its AppKey and devEui, an ABP one its addr and
\* appSKey; the fields not set keep their zero values
newDevice(c) ==
    IF c.JoinType \in {"OTAA", ""}
    THEN [joinType |-> "OTAA", devEui |-> c.DevEUI, AppKey |-> c.AppKey,
          addr |-> <<>>, appSKey |-> ZeroKey]
    ELSE [joinType |-> "ABP", devEui |-> <<>>, AppKey |-> 0,
          addr |-> c.DevAddr, appSKey |-> c.AppSKey]

Config == [d \in DeviceNames |-> newDevice(Devices[d])]

OTAANames == {d \in DeviceNames : Config[d].joinType = "OTAA"}

\* --------------------------------------------------- configuration validation

\* A DeviceConfig as Validate sees it: the join type, and of every other
\* attribute the length of its string (0 when it is missing).
JoinTypes == {"OTAA", "ABP", "", "LoRa"}

DeviceConfigs ==
    [JoinType : JoinTypes, DecoderPath : {0, 5}, DevEUI : {0, 15, 16},
     AppKey : {31, 32}, AppSKey : {0, 32}, NwkSKey : {32}, DevAddr : {8}]

RECURSIVE SeqsUpTo(_, _)
\* the sequences over S of length at most n
SeqsUpTo(S, n) ==
    IF n = 0 THEN {<<>>}
    ELSE SeqsUpTo(S, n - 1)
         \cup {Append(q, x) : q \in {r \in SeqsUpTo(S, n - 1) : Len(r) = n - 1}, x \in S}

\* the configurations given to Validate
Configurations == SeqsUpTo(DeviceConfigs, MaxDevices)

\* validateOTAAAttributes: "nil", or the error it returns
validateOTAAAttributes(conf) ==
    IF conf.DevEUI = 0 THEN "dev EUI is required for OTAA join type"
    ELSE IF conf.DevEUI # 16 THEN "dev EUI must be 8 bytes"
    ELSE IF conf.AppKey = 0 THEN "app key is required for OTAA join type"
    ELSE IF conf.AppKey # 32 THEN "app key must be 16 bytes"
    ELSE "nil"

\* validateABPAttributes: "nil", or the error it returns
validateABPAttributes(conf) ==
    IF conf.AppSKey = 0 THEN "app session key is required for ABP join type"
    ELSE IF conf.AppSKey # 32 THEN "app session key must be 16 bytes"
    ELSE IF conf.NwkSKey = 0 THEN "network session key is required for ABP join type"
    ELSE IF conf.NwkSKey # 32 THEN "network session key must be 16 bytes"
    ELSE IF conf.DevAddr = 0 THEN "device address is required for ABP join type"
    ELSE IF conf.DevAddr # 8 THEN "device address must be 4 bytes"
    ELSE "nil"

\* Validate: the loop over conf.Devices.  Every path through the loop body
\* returns (the switch returns the attribute check's result, error or nil),
\* so the loop never reaches a second device.
Validate(devs) ==
    IF devs = <<>> THEN "nil"
    ELSE LET d == devs[1]
         IN IF d.DecoderPath = 0 THEN "decoder path is required"
            ELSE IF d.JoinType = "ABP" THEN validateABPAttributes(d)
            ELSE IF d.JoinType \in {"OTAA", ""} THEN validateOTAAAttributes(d)
            ELSE "join type is OTAA or ABP - Default is OTAA"

\* ------------------------------------------------------------ radio traffic

JoinEUI == <<0, 0, 0, 0, 0, 0, 0, 1>>

DevNonce == <<5, 6>>

JoinPrefix(w) == <<MhdrJoinRequest>> \o JoinEUI \o w \o DevNonce

\* a complete join request with wire dev EUI w, signed with appKey
SignedJoin(w, appKey) == JoinPrefix(w) \o ComputeJoinRequestMIC(appKey, JoinPrefix(w))

\* a dev EUI no configured device has
ForeignEUI == <<7, 7, 7, 7, 7, 7, 7, 7>>

\* complete join requests: each OTAA device with its own key, the first
\* device with a wrong key, a foreign device, and the configured dev EUI of
\* the ABP device signed with the zero AppKey such a Device holds
FullJoinPackets ==
    {SignedJoin(reverseByteArray(Config[d].devEui), Config[d].AppKey) : d \in OTAANames}
    \cup {SignedJoin(reverseByteArray(Config["d1"].devEui), Config["d2"].AppKey),
          SignedJoin(ForeignEUI, Config["d1"].AppKey),
          SignedJoin(reverseByteArray(Devices["d3"].DevEUI), 0)}

\* lengths at which a join request may arrive cut short
ShortLens == {8, 17, 21}

ShortJoinPackets ==
    {SubSeq(JoinPrefix(reverseByteArray(Config["d1"].devEui)) \o <<0, 0, 0, 0>>, 1, n) :
        n \in ShortLens}

UplinkPacket == <<MhdrDataUplink, 1>>

UnsupportedPacket == <<255>>

JoinTraffic == FullJoinPackets \cup ShortJoinPackets \cup {UnsupportedPacket}

Packets == JoinTraffic \cup {UplinkPacket}

\* values the per-transaction random generators can produce
JoinNonces == {<<1, 2, 3>>, <<3, 2, 1>>}

DevAddrs == {<<1, 2, 3, 4>>, <<1, 2, 4, 3>>}

\* ------------------------------------------------------------- Go map values

\* a map[string]interface{} value: nil, or a finite mapping
NilMap == [nil |-> TRUE, kv |-> <<>>]

MakeMap == [nil |-> FALSE, kv |-> <<>>]

MapOf(f) == [nil |-> FALSE, kv |-> f]

\* readings a decoder can report
ReadingMaps == {MapOf([k \in {"a"} |-> 1]), MapOf([k \in {"b"} |-> 2]),
                MapOf([k \in {"a", "b"} |-> IF k = "a" THEN 2 ELSE 1])}

\* what the uplink decoder returns: on success the device and its readings,
\* on failure the zero values and an error
DecodeResults ==
    [name : OTAANames, readings : ReadingMaps, err : {FALSE}]
    \cup [name : {""}, readings : {NilMap}, err : {TRUE}]

\* ------------------------------------------------------------------- state

VARIABLES
    devices,       \* session state of every device: addr and appSKey
    lastReadings,  \* g.lastReadings: device name -> readings map
    readingsMu,    \* holder of g.readingsMu, 0 when free
    mu,            \* holder of g.mu (the transmit lock), 0 when free
    workers,       \* g.workers: "nil" until receivePackets assigns it
    cancelled,     \* the workers' context is cancelled
    closePc,       \* position of Close
    pollPc,        \* position of the poll loop
    spawned,       \* number of dispatch tasks started so far
    task,          \* the dispatch tasks
    lastCommit,    \* per device, the address generated by the transaction
                   \* that last stored its appSKey (<<>> when none has)
    decoded,       \* names for which an uplink decode has succeeded
    readerRef,     \* what the last Readings call returned to its caller
    snapAtReturn,  \* the readings at the moment that call returned
    mergeLog,      \* the merges in the order they took g.readingsMu
    validation     \* a configuration and what Config.Validate said of it

vars == <<devices, lastReadings, readingsMu, mu, workers, cancelled, closePc,
          pollPc, spawned, task, lastCommit, decoded, readerRef,
          snapAtReturn, mergeLog, validation>>

NoFrame == [mhdr |-> 0, enc |-> [key |-> 0, plain |-> <<>>]]

IdleTask ==
    [pc |-> "idle", payload |-> <<>>, plen |-> 0, mhdr |-> 0, dev |-> "",
     devEUI |-> <<>>, devNonce |-> <<>>, jn |-> <<>>, genAddr |-> <<>>,
     frame |-> NoFrame, key |-> ZeroKey, tx |-> 0, outcome |-> "",
     uname |-> "", ureadings |-> NilMap, uerr |-> FALSE, rok |-> FALSE,
     rnil |-> FALSE, keysLeft |-> {}, log |-> ""]

Constructed ==
    /\ devices = [d \in DeviceNames |->
                    [addr |-> Config[d].addr, appSKey |-> Config[d].appSKey]]
    /\ lastReadings = <<>>
    /\ readingsMu = 0
    /\ mu = 0
    /\ workers = "nil"
    /\ cancelled = FALSE
    /\ closePc = "idle"
    /\ pollPc = "running"
    /\ spawned = 0
    /\ task = [t \in Tasks |-> IdleTask]
    /\ lastCommit = [d \in DeviceNames |-> <<>>]
    /\ decoded = {}
    /\ readerRef = "none"
    /\ snapAtReturn = <<>>
    /\ mergeLog = <<>>

\* the gateway after newGateway has returned
Init ==
    /\ Constructed
    /\ validation = [conf |-> <<>>, result |-> "none"]

\* ---------------------------------------------------------------- helpers

SetTask(t, r) == [task EXCEPT ![t] = r]

\* errNoDevice: the package's sentinel error for an unknown device
errNoDevice == <<"var", "errNoDevice">>

\* the error value handleJoin returns for an outcome: each is created by
\* errors.New (or by the library) where the failure is found, the unknown
\* device one in parseJoinRequestPacket
JoinError(outcome) ==
    IF outcome = "ok" THEN <<>> ELSE <<"errors.New", outcome>>

\* errors.Is(err, target) on errors that wrap nothing: err == target
ErrorsIs(err, target) == err = target

\* the level of the line handlePacket logs once the packet is handled; a
\* task that faults logs nothing
LogLevel(mhdr, outcome) ==
    IF outcome = "panic" THEN "none"
    ELSE IF mhdr = MhdrJoinRequest
         THEN IF JoinError(outcome) = <<>> THEN "info"
              ELSE IF ErrorsIs(errNoDevice, JoinError(outcome)) THEN "debug"
              ELSE "error"
    ELSE IF mhdr = MhdrDataUplink
         THEN IF outcome = "DecodeFailed" THEN "error" ELSE "info"
    ELSE "warn"

\* a task that has returned keeps only the type and length of its packet,
\* the dev EUI it read from it, its device, its transmit count, what it
\* reports and the level it logged at
Finish(r, outcome) ==
    [IdleTask EXCEPT !.pc = "done", !.outcome = outcome, !.dev = r.dev, !.tx = r.tx,
                     !.plen = r.plen, !.mhdr = r.mhdr, !.devEUI = r.devEUI,
                     !.log = LogLevel(r.mhdr, outcome)]

Running(t) == task[t].pc \notin {"idle", "done"}

\* a Close that does not wait for the workers
WorkersDoneNoWait == TRUE

\* g.workers.Stop() returns once the poll loop and every dispatch task have
\* returned
WorkersDone ==
    /\ pollPc \in {"exited", "panicked"}
    /\ \A t \in Tasks : ~Running(t)

\* -------------------------------------------------------------- constructor

\* receivePackets: the value NewBackgroundStoppableWorkers returns is stored
\* in g.workers; the poll loop it started is already running
AssignWorkers ==
    /\ workers = "nil"
    /\ workers' = "set"
    /\ UNCHANGED <<devices, lastReadings, readingsMu, mu, cancelled, closePc,
                   pollPc, spawned, task, lastCommit, decoded,
                   readerRef, snapAtReturn, mergeLog, validation>>

\* ---------------------------------------------------------------- poll loop

\* One action is one iteration of the loop: the select on ctx.Done() at its
\* top, the call of C.receive and what is done with its result.

\* the context is done: the loop returns
PollExit ==
    /\ pollPc = "running"
    /\ cancelled
    /\ pollPc' = "exited"
    /\ UNCHANGED <<devices, lastReadings, readingsMu, mu, workers, cancelled,
                   closePc, spawned, task, lastCommit, decoded, readerRef,
                   snapAtReturn, mergeLog, validation>>

\* C.receive returned 0: no packet; the loop waits 10 ms, or until the
\* context is done
PollReceiveNone ==
    /\ pollPc = "running"
    /\ ~cancelled
    /\ UNCHANGED vars

\* a handlePacket in which the poll loop waits for the task it started
handlePacketBlocking(payload) ==
    IF workers = "nil"
    THEN pollPc' = "panicked" /\ UNCHANGED <<spawned, task>>
    ELSE /\ pollPc' = "blocked"
         /\ spawned' = spawned + 1
         /\ task' = SetTask(spawned + 1,
                      [IdleTask EXCEPT !.pc = "dispatch", !.payload = payload,
                                       !.plen = Len(payload),
                                       !.mhdr = payload[1]])

\* the dispatch task handlePacket starts for a payload: g.workers.Add on a
\* nil g.workers faults the poll loop
handlePacket(payload) ==
    IF workers = "nil"
    THEN pollPc' = "panicked" /\ UNCHANGED <<spawned, task>>
    ELSE /\ pollPc' = pollPc
         /\ spawned' = spawned + 1
         /\ task' = SetTask(spawned + 1,
                      [IdleTask EXCEPT !.pc = "dispatch", !.payload = payload,
                                       !.plen = Len(payload),
                                       !.mhdr = payload[1]])

\* C.receive returned 1: a packet of size 0 is skipped, else the payload is
\* copied out and handed to handlePacket
PollReceiveOne(traffic) ==
    /\ pollPc = "running"
    /\ ~cancelled
    /\ spawned < MaxTasks
    /\ \E p \in traffic \cup {<<>>} :
          IF p = <<>>
          THEN UNCHANGED <<pollPc, spawned, task>>
          ELSE handlePacket(p)
    /\ UNCHANGED <<devices, lastReadings, readingsMu, mu, workers, cancelled,
                   closePc, lastCommit, decoded, readerRef, snapAtReturn, mergeLog, validation>>

\* C.receive returned anything else: an error is logged
PollReceiveError ==
    /\ pollPc = "running"
    /\ ~cancelled
    /\ UNCHANGED vars

\* ---------------------------------------------------------------- join flow

\* the four slices parseJoinRequestPacket takes of the payload
ParseSlicesOK(payload) ==
    /\ SliceOK(payload, 1, 9)
    /\ SliceOK(payload, 9, 17)
    /\ SliceOK(payload, 17, 19)
    /\ SliceOK(payload, 19, 23)

joinEUIOf(payload) == Slice(payload, 1, 9)

devEUIOf(payload) == Slice(payload, 9, 17)

devNonceOf(payload) == Slice(payload, 17, 19)

\* device.devEui is big endian: the wire value is reversed to compare
MatchEUI(devEui, wire) == devEui = reverseByteArray(wire)

\* a lookup that falls back to the first device when none has the dev EUI
MatchedOrFirst(payload) ==
    IF {d \in DeviceNames : MatchEUI(Config[d].devEui, devEUIOf(payload))} = {}
    THEN {"d1"}
    ELSE {d \in DeviceNames : MatchEUI(Config[d].devEui, devEUIOf(payload))}

\* the configured devices whose devEui equals the request's
Matched(payload) == {d \in DeviceNames : MatchEUI(Config[d].devEui, devEUIOf(payload))}

\* validateMIC: "panic" when payload[19:] is out of range, else whether the
\* bytes from 19 on equal the MIC computed over the first 19
MICMatches(appKey, payload) ==
    Slice(payload, 19, Len(payload)) = ComputeJoinRequestMIC(appKey, Slice(payload, 0, 19))

\* a check that accepts any four MIC bytes
validateMICAny(appKey, payload) ==
    IF ~(SliceOK(payload, 0, 19) /\ 19 <= Len(payload)) THEN "panic" ELSE "ok"

validateMIC(appKey, payload) ==
    IF ~(SliceOK(payload, 0, 19) /\ 19 <= Len(payload)) THEN "panic"
    ELSE IF ~MICMatches(appKey, payload) THEN "InvalidMIC"
    ELSE "ok"

\* parseJoinRequestPacket for a matched device d ("" when none matched)
parseJoinRequestPacket(payload, d) ==
    IF ~ParseSlicesOK(payload) THEN "panic"
    ELSE IF d = "" THEN "UnknownDevice"
    ELSE validateMIC(Config[d].AppKey, payload)

\* handlePacket on MHDR 0x00, handleJoin up to the call of GenerateJoinAccept
JoinParse(t) ==
    /\ task[t].pc = "dispatch"
    /\ task[t].payload[1] = MhdrJoinRequest
    /\ LET payload == task[t].payload
           cands == IF ParseSlicesOK(payload) /\ Matched(payload) # {}
                    THEN Matched(payload) ELSE {""}
           eui   == IF ParseSlicesOK(payload) THEN devEUIOf(payload) ELSE <<>>
       IN \E d \in cands :
            LET res == parseJoinRequestPacket(payload, d)
                r   == [task[t] EXCEPT !.devEUI = eui]
            IN task' = SetTask(t, IF res = "ok"
                                  THEN [r EXCEPT !.pc = "genaddr", !.dev = d,
                                                 !.devNonce = devNonceOf(payload),
                                                 !.payload = <<>>]
                                  ELSE Finish(r, res))
    /\ UNCHANGED <<devices, lastReadings, readingsMu, mu, workers, cancelled,
                   closePc, pollPc, spawned, lastCommit, decoded,
                   readerRef, snapAtReturn, mergeLog, validation>>

\* GenerateJoinAccept, first part: the join nonce and the device address are
\* drawn and the address is stored in the device
GenAddr(t) ==
    /\ task[t].pc = "genaddr"
    /\ \E jn \in JoinNonces, a \in DevAddrs :
         /\ task' = SetTask(t, [task[t] EXCEPT !.pc = "build", !.jn = jn,
                                               !.genAddr = a])
         /\ devices' = [devices EXCEPT ![task[t].dev].addr = a]
    /\ UNCHANGED <<lastReadings, readingsMu, mu, workers, cancelled, closePc,
                   pollPc, spawned, lastCommit, decoded, readerRef,
                   snapAtReturn, mergeLog, validation>>

\* the join accept plaintext, everything little endian
AcceptPlain(jn, addr) ==
    <<MhdrJoinAccept>> \o reverseByteArray(jn) \o reverseByteArray(netID)
        \o reverseByteArray(addr) \o <<0, 1>>

\* the frame handed to the radio: the MHDR and the encrypted rest.  The
\* error result of EncryptJoinAccept is never tested: the frame is built
\* from the ciphertext it returns.
AcceptFrame(appKey, jn, addr) ==
    LET plain == AcceptPlain(jn, addr)
        body  == Tail(plain) \o ComputeLegacyJoinAcceptMIC(appKey, plain)
    IN [mhdr |-> MhdrJoinAccept, enc |-> EncryptJoinAccept(appKey, body)]

\* generateKeys: the dev nonce is reversed to big endian
generateKeys(appKey, devNonce, jn) ==
    DeriveAppSKey(appKey, jn, reverseByteArray(devNonce), netID)

\* GenerateJoinAccept, middle part: the address is read back from the device,
\* the frame is built and the session key derived; the MIC computation and
\* the key derivation may fail
Build(t) ==
    /\ task[t].pc = "build"
    /\ LET d == task[t].dev
           appKey == Config[d].AppKey
       IN \E micOk \in BOOLEAN, deriveOk \in BOOLEAN :
            task' = SetTask(t,
              IF ~micOk THEN Finish(task[t], "AcceptMICFailed")
              ELSE IF ~deriveOk
                   THEN Finish(task[t], "KeyDerivationFailed")
              ELSE [task[t] EXCEPT
                      !.pc = "commit",
                      !.frame = AcceptFrame(appKey, task[t].jn, devices[d].addr),
                      !.key = generateKeys(appKey, task[t].devNonce, task[t].jn)])
    /\ UNCHANGED <<devices, lastReadings, readingsMu, mu, workers, cancelled,
                   closePc, pollPc, spawned, lastCommit, decoded,
                   readerRef, snapAtReturn, mergeLog, validation>>

\* GenerateJoinAccept, last part: d.appSKey = appsKey, and the frame is
\* returned.  handleJoin copies the frame into the packet it sends and no
\* later step changes or reads the locals, so they are not carried further.
Commit(t) ==
    /\ task[t].pc = "commit"
    /\ devices' = [devices EXCEPT ![task[t].dev].appSKey = task[t].key]
    /\ lastCommit' = [lastCommit EXCEPT ![task[t].dev] = task[t].genAddr]
    /\ task' = SetTask(t, [task[t] EXCEPT !.pc = "sleep", !.jn = <<>>,
                                          !.genAddr = <<>>, !.key = ZeroKey,
                                          !.devNonce = <<>>, !.frame = NoFrame])
    /\ UNCHANGED <<lastReadings, readingsMu, mu, workers, cancelled, closePc,
                   pollPc, spawned, decoded, readerRef, snapAtReturn, mergeLog, validation>>

\* time.Sleep(joinRx2WindowSec * time.Second) returns: the RX2 wait is over
Sleep(t) ==
    /\ task[t].pc = "sleep"
    /\ task' = SetTask(t, [task[t] EXCEPT !.pc = "lock"])
    /\ UNCHANGED <<devices, lastReadings, readingsMu, mu, workers, cancelled,
                   closePc, pollPc, spawned, lastCommit, decoded,
                   readerRef, snapAtReturn, mergeLog, validation>>

\* a send that is not serialised by the lock
CanLockAlways(t) == TRUE

\* g.mu.Lock() can be taken by t
CanLock(t) == mu = 0

\* g.mu.Lock() and the call of C.send
Lock(t) ==
    /\ task[t].pc = "lock"
    /\ CanLock(t)
    /\ mu' = t
    /\ task' = SetTask(t, [task[t] EXCEPT !.pc = "sending", !.tx = @ + 1])
    /\ UNCHANGED <<devices, lastReadings, readingsMu, workers, cancelled,
                   closePc, pollPc, spawned, lastCommit, decoded,
                   readerRef, snapAtReturn, mergeLog, validation>>

\* a handleJoin that sends again when C.send fails
SendReturnRetry(t) ==
    /\ task[t].pc = "sending"
    /\ \E errCode \in {0, 1} :
         task' = SetTask(t, IF errCode # 0 THEN [task[t] EXCEPT !.pc = "lock"]
                            ELSE Finish(task[t], "ok"))
    /\ mu' = 0
    /\ UNCHANGED <<devices, lastReadings, readingsMu, workers, cancelled,
                   closePc, pollPc, spawned, lastCommit, decoded,
                   readerRef, snapAtReturn, mergeLog, validation>>

\* a handleJoin that unlocks only on its successful path
SendReturnKeepLock(t) ==
    /\ task[t].pc = "sending"
    /\ \E errCode \in {0, 1} :
         /\ task' = SetTask(t, Finish(task[t],
                                IF errCode # 0 THEN "RadioTransmitFailed" ELSE "ok"))
         /\ mu' = IF errCode # 0 THEN mu ELSE 0
    /\ UNCHANGED <<devices, lastReadings, readingsMu, workers, cancelled,
                   closePc, pollPc, spawned, lastCommit, decoded,
                   readerRef, snapAtReturn, mergeLog, validation>>

\* C.send returns its error code, handleJoin returns and the deferred
\* g.mu.Unlock() runs
SendReturn(t) ==
    /\ task[t].pc = "sending"
    /\ \E errCode \in {0, 1} :
         task' = SetTask(t, Finish(task[t],
                                   IF errCode # 0 THEN "RadioTransmitFailed" ELSE "ok"))
    /\ mu' = 0
    /\ UNCHANGED <<devices, lastReadings, readingsMu, workers, cancelled,
                   closePc, pollPc, spawned, lastCommit, decoded,
                   readerRef, snapAtReturn, mergeLog, validation>>

\* -------------------------------------------------------------- data uplink

\* handlePacket on MHDR 0x40: the decoder's result is taken; an error is
\* logged, and updateReadings is called with the result either way
UplinkParse(t) ==
    /\ task[t].pc = "dispatch"
    /\ task[t].payload[1] = MhdrDataUplink
    /\ \E r \in DecodeResults :
         /\ task' = SetTask(t, [task[t] EXCEPT !.pc = "upd_lock", !.uname = r.name,
                                               !.ureadings = r.readings,
                                               !.uerr = r.err, !.payload = <<>>])
         /\ decoded' = IF r.err THEN decoded ELSE decoded \cup {r.name}
    /\ UNCHANGED <<devices, lastReadings, readingsMu, mu, workers, cancelled,
                   closePc, pollPc, spawned, lastCommit, readerRef,
                   snapAtReturn, mergeLog, validation>>

\* handlePacket on any other MHDR: a warning is logged
Unsupported(t) ==
    /\ task[t].pc = "dispatch"
    /\ task[t].payload[1] \notin {MhdrJoinRequest, MhdrDataUplink}
    /\ task' = SetTask(t, Finish(task[t], "unsupported"))
    /\ UNCHANGED <<devices, lastReadings, readingsMu, mu, workers, cancelled,
                   closePc, pollPc, spawned, lastCommit, decoded,
                   readerRef, snapAtReturn, mergeLog, validation>>

\* a merge that does not wait for the lock
CanLockReadingsAlways == TRUE

\* g.readingsMu.Lock() can be taken
CanLockReadings == readingsMu = 0

\* the store with name bound to the map m
Store(name, m) ==
    [n \in DOMAIN lastReadings \cup {name} |-> IF n = name THEN m ELSE lastReadings[n]]

\* updateReadings: g.readingsMu.Lock() and the lookup
\* readings, ok := g.lastReadings[name].(map[string]interface{}); when the
\* entry exists, a nil stored map is replaced by a fresh one and the loop
\* over newReadings is entered
UpdLock(t) ==
    /\ task[t].pc = "upd_lock"
    /\ CanLockReadings
    /\ readingsMu' = t
    /\ LET name == task[t].uname
           ok   == name \in DOMAIN lastReadings
           rnil == ok /\ lastReadings[name].nil
       IN /\ task' = SetTask(t, [task[t] EXCEPT
                       !.pc = IF ok THEN "upd_loop" ELSE "upd_insert",
                       !.rok = ok,
                       !.rnil = rnil,
                       !.keysLeft = IF ok THEN DOMAIN task[t].ureadings.kv ELSE {}])
          /\ lastReadings' = IF rnil THEN Store(name, MakeMap) ELSE lastReadings
          /\ mergeLog' = Append(mergeLog, [name |-> name, kv |-> task[t].ureadings.kv])
    /\ UNCHANGED <<devices, mu, workers, cancelled, closePc, pollPc, spawned,
                   lastCommit, decoded, readerRef, snapAtReturn, validation>>

\* updateReadings: readings for this device does not exist yet; the deferred
\* unlock runs
UpdInsert(t) ==
    /\ task[t].pc = "upd_insert"
    /\ lastReadings' = Store(task[t].uname, task[t].ureadings)
    /\ readingsMu' = 0
    /\ task' = SetTask(t, Finish(task[t], IF task[t].uerr THEN "DecodeFailed" ELSE "ok"))
    /\ UNCHANGED <<devices, mu, workers, cancelled, closePc, pollPc, spawned, lastCommit, decoded, readerRef, snapAtReturn, mergeLog, validation>>

\* a write that keeps the value of a key the map already has
MapPutIfAbsent(m, key, val) ==
    [nil |-> FALSE,
     kv  |-> [k \in DOMAIN m.kv \cup {key} |->
                IF k \in DOMAIN m.kv THEN m.kv[k] ELSE val]]

\* m with key bound to val
MapPut(m, key, val) ==
    [nil |-> FALSE,
     kv  |-> [k \in DOMAIN m.kv \cup {key} |-> IF k = key THEN val ELSE m.kv[k]]]

\* updateReadings: readings[key] = val for one key of newReadings, written
\* into the stored map itself; writing into a nil map faults the task
UpdMergeKey(t) ==
    /\ task[t].pc = "upd_loop"
    /\ task[t].keysLeft # {}
    /\ \E key \in task[t].keysLeft :
         IF task[t].rnil
         THEN /\ task' = SetTask(t, Finish(task[t], "panic"))
              /\ readingsMu' = 0
              /\ UNCHANGED lastReadings
         ELSE /\ lastReadings' = Store(task[t].uname,
                                   MapPut(lastReadings[task[t].uname], key,
                                          task[t].ureadings.kv[key]))
              /\ task' = SetTask(t, [task[t] EXCEPT !.keysLeft = @ \ {key}])
              /\ UNCHANGED readingsMu
    /\ UNCHANGED <<devices, mu, workers, cancelled, closePc, pollPc, spawned, lastCommit, decoded, readerRef, snapAtReturn, mergeLog, validation>>

\* updateReadings: g.lastReadings[name] = readings, and the deferred unlock
UpdStore(t) ==
    /\ task[t].pc = "upd_loop"
    /\ task[t].keysLeft = {}
    /\ lastReadings' = IF task[t].rnil THEN Store(task[t].uname, NilMap)
                       ELSE lastReadings
    /\ readingsMu' = 0
    /\ task' = SetTask(t, Finish(task[t], IF task[t].uerr THEN "DecodeFailed" ELSE "ok"))
    /\ UNCHANGED <<devices, mu, workers, cancelled, closePc, pollPc, spawned, lastCommit, decoded, readerRef, snapAtReturn, mergeLog, validation>>

\* ----------------------------------------------------------- readings query

\* what a reference returned by Readings denotes when its holder reads it
Deref(ref) == IF ref = "lastReadings" THEN lastReadings ELSE <<>>

\* Readings: under g.readingsMu, g.lastReadings itself is returned
Readings ==
    /\ CanLockReadings
    /\ readerRef' = "lastReadings"
    /\ snapAtReturn' = lastReadings
    /\ UNCHANGED <<devices, lastReadings, readingsMu, mu, workers, cancelled,
                   closePc, pollPc, spawned, task, lastCommit, decoded,
                   mergeLog, validation>>

\* ------------------------------------------------------------------ shutdown

\* Close: g.workers.Stop() cancels the workers' context
CloseStop ==
    /\ closePc = "idle"
    /\ workers = "set"
    /\ cancelled' = TRUE
    /\ closePc' = "stopping"
    /\ UNCHANGED <<devices, lastReadings, readingsMu, mu, workers, pollPc,
                   spawned, task, lastCommit, decoded, readerRef,
                   snapAtReturn, mergeLog, validation>>

\* Close: g.workers.Stop() has returned and C.stopGateway() releases the radio
CloseRelease ==
    /\ closePc = "stopping"
    /\ WorkersDone
    /\ closePc' = "released"
    /\ UNCHANGED <<devices, lastReadings, readingsMu, mu, workers, cancelled,
                   pollPc, spawned, task, lastCommit, decoded,
                   readerRef, snapAtReturn, mergeLog, validation>>

\* ------------------------------------------------------------- specification

JoinTaskStep(t) ==
    \/ JoinParse(t)
    \/ GenAddr(t)
    \/ Build(t)
    \/ Commit(t)
    \/ Sleep(t)
    \/ Lock(t)
    \/ SendReturn(t)
    \/ Unsupported(t)

DataTaskStep(t) ==
    \/ UplinkParse(t)
    \/ UpdLock(t)
    \/ UpdInsert(t)
    \/ UpdMergeKey(t)
    \/ UpdStore(t)

PollStep(traffic) ==
    \/ PollExit
    \/ PollReceiveNone
    \/ PollReceiveOne(traffic)
    \/ PollReceiveError

\* the gateway under any radio traffic, with callers of Readings
Next ==
    \/ AssignWorkers
    \/ PollStep(Packets)
    \/ \E t \in Tasks : JoinTaskStep(t) \/ DataTaskStep(t)
    \/ Readings
    \/ CloseStop
    \/ CloseRelease

Spec == Init /\ [][Next]_vars

\* the gateway when the radio delivers join requests and unsupported frames
JoinNext ==
    \/ AssignWorkers
    \/ PollStep(JoinTraffic)
    \/ \E t \in Tasks : JoinTaskStep(t)
    \/ CloseStop
    \/ CloseRelease

JoinSpec == Init /\ [][JoinNext]_vars

\* The scheduler runs every task that can take a step, and a task waiting
\* for the transmit lock gets it once it is free often enough.
JoinFairSpec ==
    /\ JoinSpec
    /\ \A t \in Tasks : WF_vars(JoinTaskStep(t)) /\ SF_vars(Lock(t))

\* Validate applied to a configuration
ValidateCall ==
    /\ validation.result = "pending"
    /\ validation' = [validation EXCEPT !.result = Validate(validation.conf)]
    /\ UNCHANGED <<devices, lastReadings, readingsMu, mu, workers, cancelled,
                   closePc, pollPc, spawned, task, lastCommit, decoded,
                   readerRef, snapAtReturn, mergeLog>>

ValidateInit ==
    /\ Constructed
    /\ validation \in [conf : Configurations, result : {"pending"}]

ValidateNext == ValidateCall

\* any configuration, validated
ValidateSpec == ValidateInit /\ [][ValidateNext]_vars

\* ------------------------------------------------------------------ claims

JoinTask(t) == task[t].pc # "idle" /\ task[t].mhdr = MhdrJoinRequest

\* outcomes of a join transaction whose accept frame was not built
BuildFailures == {"AcceptMICFailed", "KeyDerivationFailed"}

InitialSession(d) == [addr |-> Config[d].addr, appSKey |-> Config[d].appSKey]

\* C1: at most one transmit call on the radio is in flight at any time,
\* whatever join transactions run concurrently.
C1_OneTransmitInFlight ==
    Cardinality({t \in Tasks : task[t].pc = "sending"}) <= 1

\* one transaction is inside the send call while another waits at the lock
C1_Witness ==
    \E t1, t2 \in Tasks : task[t1].pc = "sending" /\ task[t2].pc = "lock"

\* C2: the session pair of a device is updated atomically: in every state a
\* concurrent task can observe, the device holds either its configured pair
\* or the devAddr generated by the very transaction whose AppSKey it holds.
C2_SessionPairAtomic ==
    \A d \in OTAANames :
        IF lastCommit[d] = <<>> THEN devices[d] = InitialSession(d)
        ELSE devices[d].addr = lastCommit[d]

\* C3: a join transaction whose accept frame build fails leaves the device's
\* session untouched: a device all of whose join transactions have failed in
\* the build still holds its configured devAddr and AppSKey.
C3_FailedJoinLeavesSession ==
    \A d \in OTAANames :
        (/\ \E t \in Tasks : task[t].dev = d
         /\ \A t \in Tasks : task[t].dev = d =>
                task[t].pc = "done" /\ task[t].outcome \in BuildFailures)
        => devices[d] = InitialSession(d)

\* a merge has written some but not all of its keys into the stored map
PartWayMerge(t) ==
    /\ task[t].pc = "upd_loop"
    /\ task[t].keysLeft # {}
    /\ task[t].keysLeft # DOMAIN task[t].ureadings.kv

\* C4: the mapping a Readings call returned is a point-in-time snapshot: what
\* its holder reads from it stays what it was when the call returned, and is
\* never a device's readings part-way through a merge.
C4_ReadingsIsSnapshot ==
    readerRef # "none" =>
        /\ Deref(readerRef) = snapAtReturn
        /\ \A t \in Tasks : ~PartWayMerge(t)

\* C5: a data uplink whose decode fails leaves the Readings Store unchanged,
\* so every key of the store names a device with a successful decode.
C5_StoreKeysDecoded == DOMAIN lastReadings \subseteq decoded

\* C6: a join request shorter than 23 bytes is rejected with MalformedFrame
\* and its dispatch task ends without faulting.
C6_ShortJoinMalformed ==
    \A t \in Tasks :
        (JoinTask(t) /\ task[t].plen < JoinRequestLen /\ task[t].pc = "done")
        => task[t].outcome = "MalformedFrame"

\* C7: once the join transactions of a device have all committed, the device
\* holds the devAddr and AppSKey of one transaction, the one that committed
\* last, in every interleaving.
C7_LastCommitWins ==
    \A d \in OTAANames :
        (/\ lastCommit[d] # <<>>
         /\ \A t \in Tasks : task[t].dev = d =>
                /\ task[t].pc \in {"sleep", "lock", "sending", "done"}
                /\ task[t].outcome \notin BuildFailures)
        => devices[d].addr = lastCommit[d]

\* C8 as stated: every join request of a configured OTAA device with a valid
\* MIC causes exactly one transmit call.
C8_EveryValidJoinTransmits ==
    \A t \in Tasks :
        (task[t].pc = "done" /\ task[t].dev # "") => task[t].tx = 1

\* C8 amended: a join request of a configured OTAA device with a valid MIC
\* whose accept frame is built causes exactly one transmit call, made after
\* the RX2 wait; one whose build fails causes none; a failed transmit call is
\* reported as RadioTransmitFailed and not repeated.
C8_OneTransmitAfterRX2 ==
    \A t \in Tasks :
        /\ task[t].tx <= 1
        /\ task[t].tx = 1 <=> \/ task[t].pc = "sending"
                               \/ /\ JoinTask(t)
                                  /\ task[t].outcome \in {"ok", "RadioTransmitFailed"}
        /\ (task[t].pc = "done" /\ task[t].dev # "") =>
               task[t].outcome \in BuildFailures \cup {"ok", "RadioTransmitFailed"}

\* a transmit call failed and the transaction ended without a second call
C8_Witness ==
    \E t \in Tasks : task[t].outcome = "RadioTransmitFailed" /\ task[t].tx = 1

\* C9: under fair scheduling every join transaction that has built its
\* accept frame eventually makes its transmit call.
C9_BuiltEventuallyTransmits ==
    \A t \in Tasks : (task[t].pc = "commit") ~> (task[t].tx = 1)

\* a transaction waits at the lock after another one's transmit call failed
C9_Witness ==
    \E t1, t2 \in Tasks :
        task[t1].outcome = "RadioTransmitFailed" /\ task[t2].pc = "lock"

\* C10: the radio is released only after the poll loop has exited and every
\* dispatch task has returned, and by then every join transaction that built
\* its accept frame has made its transmit call.
C10_ReleaseAfterWorkers ==
    closePc = "released" =>
        /\ pollPc \in {"exited", "panicked"}
        /\ \A t \in Tasks :
             /\ ~Running(t)
             /\ (task[t].dev # "" /\ task[t].outcome \notin BuildFailures)
                    => task[t].tx = 1

\* shutdown has been requested while a join transaction is in its RX2 wait
C10_Witness ==
    closePc = "stopping" /\ \E t \in Tasks : task[t].pc = "sleep"

\* the task's next step dispatches a complete join request
DispatchesJoin(t) ==
    /\ task[t].pc = "dispatch"
    /\ task[t].payload[1] = MhdrJoinRequest
    /\ Len(task[t].payload) >= JoinRequestLen
    /\ task'[t] # task[t]

\* the step leaves every device, the readings and the radio as they were
\* and ends the task with the outcome, without a transmit call
RejectsWith(t, outcome) ==
    /\ task'[t].pc = "done"
    /\ task'[t].outcome = outcome
    /\ task'[t].tx = 0
    /\ devices' = devices
    /\ lastReadings' = lastReadings
    /\ mu' = mu

\* C11: the dispatch of a join request whose byte-reversed dev EUI is that
\* of no configured device ends with UnknownDevice and changes no device,
\* no reading, and makes no transmit call.
C11_UnknownDeviceNoEffect ==
    [][\A t \in Tasks :
         (/\ DispatchesJoin(t)
          /\ \A d \in DeviceNames :
                Config[d].devEui # reverseByteArray(SubSeq(task[t].payload, 10, 17)))
         => RejectsWith(t, "UnknownDevice")]_vars

\* a join request of a foreign device has been turned away while a join
\* transaction of a configured device is under way
C11_Witness ==
    \E t1, t2 \in Tasks :
        /\ task[t1].pc = "done" /\ task[t1].outcome = "UnknownDevice"
        /\ task[t1].devEUI = ForeignEUI /\ task[t1].tx = 0
        /\ task[t2].dev # ""

\* C13: the dispatch of a join request of a configured device whose bytes
\* 19..22 are not the MIC computed over bytes 0..18 with the device's AppKey
\* ends with InvalidMIC: the device's devAddr and AppSKey are unchanged and
\* no transmit call is made.
C13_InvalidMICNoEffect ==
    [][\A t \in Tasks : \A d \in DeviceNames :
         (/\ DispatchesJoin(t)
          /\ Config[d].devEui = reverseByteArray(SubSeq(task[t].payload, 10, 17))
          /\ SubSeq(task[t].payload, 20, 23)
                # ComputeJoinRequestMIC(Config[d].AppKey, SubSeq(task[t].payload, 1, 19)))
         => RejectsWith(t, "InvalidMIC")]_vars

\* a request for the first device signed with another key has been rejected
C13_Witness ==
    \E t \in Tasks :
        /\ task[t].pc = "done" /\ task[t].outcome = "InvalidMIC"
        /\ task[t].plen = JoinRequestLen
        /\ task[t].devEUI = reverseByteArray(Config["d1"].devEui)
        /\ devices["d1"] = InitialSession("d1")

\* C17: a join request that ends with UnknownDevice is logged at debug level
\* and not at error level; every other join failure is logged at error level.
C17_UnknownDeviceDebugOnly ==
    \A t \in Tasks :
        (JoinTask(t) /\ task[t].pc = "done" /\ task[t].outcome \notin {"ok", "panic"})
        => task[t].log = IF task[t].outcome = "UnknownDevice" THEN "debug" ELSE "error"

\* the devices configured for activation by personalisation
ABPNames == DeviceNames \ OTAANames

\* C18: no join request is ever matched to an ABP device: its devAddr and
\* AppSKey stay the configured ones and no join transaction runs for it.
C18_ABPNeverJoins ==
    \A d \in ABPNames :
        /\ devices[d] = InitialSession(d)
        /\ \A t \in Tasks : task[t].dev # d

\* a join request carrying the configured dev EUI of the ABP device, with a
\* MIC under the key its Device holds, has been turned away
C18_Witness ==
    \E t \in Tasks :
        /\ task[t].pc = "done" /\ task[t].outcome = "UnknownDevice"
        /\ task[t].devEUI = reverseByteArray(Devices["d3"].DevEUI)

\* C19: the join accept frame a transaction has built carries the devAddr
\* this transaction generated, and the AppSKey it is about to commit is
\* derived from its own join nonce.
C19_FrameCarriesOwnAddr ==
    \A t \in Tasks :
        task[t].pc = "commit" =>
            /\ task[t].frame = AcceptFrame(Config[task[t].dev].AppKey, task[t].jn,
                                           task[t].genAddr)
            /\ task[t].key = generateKeys(Config[task[t].dev].AppKey,
                                          task[t].devNonce, task[t].jn)

\* C20: g.workers is set whenever handlePacket uses it: the poll loop never
\* faults on a nil supervisor.
C20_WorkersSetAtDispatch == pollPc # "panicked"

\* no merge is between taking and releasing g.readingsMu
NoMergeInProgress == \A t \in Tasks : task[t].pc \notin {"upd_insert", "upd_loop"}

\* the merges applied so far that were for the device name
MergesOf(name) == {i \in 1..Len(mergeLog) : mergeLog[i].name = name}

\* C12: concurrent merges lose no update: once the merges issued have
\* returned, the store holds, for every device merged, every key any merge
\* wrote for it, with a value one of the merges wrote for that key.
C12_NoLostUpdate ==
    NoMergeInProgress =>
        \A i \in 1..Len(mergeLog) : \A k \in DOMAIN mergeLog[i].kv :
            LET name == mergeLog[i].name
            IN /\ name \in DOMAIN lastReadings
               /\ k \in DOMAIN lastReadings[name].kv
               /\ \E j \in MergesOf(name) :
                     /\ k \in DOMAIN mergeLog[j].kv
                     /\ lastReadings[name].kv[k] = mergeLog[j].kv[k]

\* two tasks have merged readings with different keys into one device
C12_Witness ==
    /\ NoMergeInProgress
    /\ Len(mergeLog) = 2
    /\ mergeLog[1].name = mergeLog[2].name
    /\ DOMAIN mergeLog[1].kv = {"a"}
    /\ DOMAIN mergeLog[2].kv = {"b"}
    /\ \A t \in Tasks : task[t].pc = "done"

\* the key-by-key union of two mappings in which the right one wins
RightUnion(f, g) ==
    [k \in DOMAIN f \cup DOMAIN g |-> IF k \in DOMAIN g THEN g[k] ELSE f[k]]

RECURSIVE UnionUpTo(_, _)
\* the right-biased union of the first n merges that were for the name
UnionUpTo(name, n) ==
    IF n = 0 THEN <<>>
    ELSE IF mergeLog[n].name = name
         THEN RightUnion(UnionUpTo(name, n - 1), mergeLog[n].kv)
    ELSE UnionUpTo(name, n - 1)

C14_ReceptionNotBlocked ==
    /\ (pollPc \notin {"exited", "panicked"} /\ ~cancelled /\ spawned < MaxTasks)
          => ENABLED PollReceiveOne(Packets)
    /\ \A t \in Tasks :
          /\ mu = t => task[t].pc = "sending"
          /\ task[t].pc \in {"sleep", "lock"} => mu # t

\* the poll loop is running while one transaction is inside its transmit
\* call with the lock held
C14_Witness ==
    /\ pollPc = "running" /\ ~cancelled /\ spawned < MaxTasks
    /\ \E t \in Tasks : task[t].pc = "sending" /\ mu = t

\* a device whose attributes the configuration surface does not allow
BadDevice(d) ==
    \/ d.DecoderPath = 0
    \/ d.JoinType \notin {"OTAA", "ABP", ""}
    \/ d.JoinType \in {"OTAA", ""} /\ (d.DevEUI # 16 \/ d.AppKey # 32)
    \/ d.JoinType = "ABP" /\ (d.AppSKey # 32 \/ d.NwkSKey # 32 \/ d.DevAddr # 8)

\* C16: Validate rejects every configuration that has, at any position of
\* its device list, a device with a missing or mis-sized required attribute,
\* no decoder path or an unknown join type.
C16_ValidateRejectsAnyBadDevice ==
    (/\ validation.result \notin {"none", "pending"}
     /\ \E i \in 1..Len(validation.conf) : BadDevice(validation.conf[i]))
    => validation.result # "nil"
====
